---- MODULE Spec2Model ----
(***************************************************************************)
(* A model of postgresql_audit/base.py: the activity log (the "activity"   *)
(* table), the attribution update issued after every flush                 *)
(* (VersioningManager.set_activity_values), and the temporal queries built *)
(* on the log (get_last_transaction_id_query, revert, resurrect), together *)
(* with the hybrid property ActivityBase.data that merges old_data and     *)
(* changed_data.  The registration of monitored tables (audit_table,       *)
(* configure_versioned_classes, actor_cls) and the disable() scope are     *)
(* modelled as specifications of their own over the same state.            *)
(*                                                                         *)
(* Time is counted in days (the attribution window is timedelta(days=1)).  *)
(* Optional values (Python None, SQL NULL) are sets: {} is None/NULL and   *)
(* {v} is the value v.  JSON objects and keyword maps are functions whose  *)
(* domain is a set of key strings.  Text is a sequence of decimal digits.  *)
(***************************************************************************)
EXTENDS Integers, Sequences, FiniteSets, TLC

(* ----------------------------- bounds ---------------------------------- *)

\* rows the activity table can hold while two sessions run concurrently
MaxLog == 2
\* rows the activity table can hold in the single-session history
MaxHist == 4
\* last instant of the clock
MaxClock == 2

(* ------------------------ optional values ------------------------------ *)

None == {}
Some(v) == {v}
The(o) == CHOOSE v \in o : TRUE

EmptyMap == [k \in {} |-> 0]

\* Python truthiness of an optional dict: None and {} are falsy
Truthy(o) == o # None /\ DOMAIN The(o) # {}

(* ------------------------------ text ----------------------------------- *)

\* str(n) of a non-negative int, and ->> (astext) of a JSON number
RECURSIVE Str(_)
Str(n) == IF n < 10 THEN <<n>> ELSE Append(Str(n \div 10), n % 10)

\* a < b on text, character by character
RECURSIVE TextLess(_, _)
TextLess(a, b) ==
    IF b = <<>> THEN FALSE
    ELSE IF a = <<>> THEN TRUE
    ELSE IF Head(a) # Head(b) THEN Head(a) < Head(b)
    ELSE TextLess(Tail(a), Tail(b))

(* --------------------------- ActivityBase.data ------------------------- *)

\* dict.update: every key of m, then every key of u over it
DictUpdate(m, u) ==
    [k \in DOMAIN m \cup DOMAIN u |-> IF k \in DOMAIN u THEN u[k] ELSE m[k]]

\* a plausible slip: only the keys old_data already has are updated
DictUpdateExistingOnly(m, u) ==
    [k \in DOMAIN m |-> IF k \in DOMAIN u THEN u[k] ELSE m[k]]

\* a plausible slip: old_data wins over changed_data
DataOldWins(old_data, changed_data) ==
    LET d0 == IF Truthy(old_data) THEN The(old_data) ELSE EmptyMap
    IN  IF Truthy(changed_data) THEN DictUpdate(The(changed_data), d0) ELSE d0

\* the same slip inside the hybrid property
DataExistingOnly(old_data, changed_data) ==
    LET d0 == IF Truthy(old_data) THEN The(old_data) ELSE EmptyMap
    IN  IF Truthy(changed_data) THEN DictUpdateExistingOnly(d0, The(changed_data)) ELSE d0

\* the instance-level hybrid property: old_data.copy(), then update(changed_data)
data(old_data, changed_data) ==
    LET d0 == IF Truthy(old_data) THEN The(old_data) ELSE EmptyMap
    IN  IF Truthy(changed_data) THEN DictUpdate(d0, The(changed_data)) ELSE d0

\* the SQL expression behind Activity.data: absent sides count as empty
jsonb_merge(old_data, changed_data) ==
    DictUpdate(IF old_data = None THEN EmptyMap ELSE The(old_data),
               IF changed_data = None THEN EmptyMap ELSE The(changed_data))

(* --------------------------- the schema -------------------------------- *)

Sessions == {"s1", "s2"}
HistSessions == {"s1"}

\* the monitored rows: two of one table, one of another
Identities == {<<"article", 1>>, <<"article", 2>>, <<"user", 1>>}
\* the monitored rows of the single-session history
HistIdentities == {<<"article", 1>>, <<"article", 2>>}
\* the entity the temporal queries are asked about, and its model
QueryIdentities == {<<"article", 1>>}
QueryModels == {"article"}
\* a table declared without a primary key
KeylessTables == {"note"}
\* get_primary_keys(model)
PrimaryKeys(tablename) == IF tablename \in KeylessTables THEN {} ELSE {"id"}

\* values of column x
Vals == {1, 2}
\* x of a freshly inserted row
InsertVals == {1}
\* x of the in-memory entity handed to revert
ObjVals == {0}

\* timedelta(days=1)
Day == 1

\* a transaction value is a literal or a zero-argument callable
Lit(v) == [callable |-> FALSE, v |-> v]
Callable(v) == [callable |-> TRUE, v |-> v]
ValueMaps == {EmptyMap, [c \in {"actor_id"} |-> Lit(1)], [c \in {"actor_id"} |-> Callable(2)]}

\* a slip of __init__: the after_flush listener is listed twice
ListenersTwice ==
    << [identifier |-> "instrument_class", fn |-> "instrument_versioned_classes"],
       [identifier |-> "after_configured", fn |-> "configure_versioned_classes"],
       [identifier |-> "after_flush", fn |-> "receive_after_flush"],
       [identifier |-> "after_flush", fn |-> "receive_after_flush"] >>

\* VersioningManager.__init__: self.listeners
Listeners ==
    << [identifier |-> "instrument_class", fn |-> "instrument_versioned_classes"],
       [identifier |-> "after_configured", fn |-> "configure_versioned_classes"],
       [identifier |-> "after_flush", fn |-> "receive_after_flush"] >>

VARIABLES
    activity,     \* the activity table, in insertion order
    committed,    \* ids of the committed transactions
    clock,        \* the wall clock
    nextTxid,     \* the next transaction id the backend hands out
    sess,         \* per session: pc, txid (0: none), start, pending after_flush calls
    values,       \* VersioningManager.values
    dialect,      \* session.bind.engine.dialect
    base,         \* VersioningManager.base, set by init
    registered,   \* the listeners attached by sa.event.listen
    warned,       \* a RuntimeWarning was emitted
    op,           \* the last call whose outcome the caller has not taken yet
    cached_statements,  \* the module-level dict: its StatementExecutors, by query
    selects,      \* Select objects constructed so far
    pending_classes,    \* VersioningManager.pending_classes
    actor_cls,    \* VersioningManager._actor_cls
    activity_cls, \* VersioningManager.activity_cls, set by init
    role          \* per session: session_replication_role and the disable() scope

\* the registration state and the replication role
setup == <<cached_statements, selects, pending_classes, actor_cls, activity_cls, role>>

vars == <<activity, committed, clock, nextTxid, sess, values, dialect, base,
          registered, warned, op, setup>>

NoOp == [kind |-> "none"]

\* session_replication_role of a fresh connection, outside any disable() scope
FreshRole == [session |-> "origin", local |-> None, scope |-> "out", saved |-> None]

\* a manager constructed without an actor class, no versioned class declared yet
InitSetup ==
    /\ cached_statements = {}
    /\ selects = 0
    /\ pending_classes = {}
    /\ actor_cls = None
    /\ activity_cls = None
    /\ role = [s \in Sessions |-> FreshRole]

Init ==
    /\ InitSetup
    /\ activity = <<>>
    /\ committed = {}
    /\ clock = 0
    /\ nextTxid = 1
    /\ sess = [s \in Sessions |-> [pc |-> "idle", txid |-> 0, start |-> 0, pending |-> 0]]
    /\ values = EmptyMap
    /\ dialect \in {"postgresql", "sqlite"}
    /\ base = None
    /\ registered = <<>>
    /\ warned = FALSE
    /\ op = NoOp


(* ------------------------- rows of the log ----------------------------- *)

\* Activity.data of a row, as the queries read it
RowData(row) == jsonb_merge(row.old_data, row.changed_data)

\* the monitored row a log row is about
RowIdentity(row) == <<row.table_name, RowData(row)["id"]>>

\* rows a session's statements see: committed ones and its own
Visible(s) ==
    {i \in 1..Len(activity) :
        \/ activity[i].transaction_id \in committed
        \/ activity[i].transaction_id = sess[s].txid}

\* positions of the rows about ident, over the whole table
RowsOf(ident) == {i \in 1..Len(activity) : RowIdentity(activity[i]) = ident}

Max(S) == CHOOSE m \in S : \A n \in S : n <= m
Min(S) == CHOOSE m \in S : \A n \in S : m <= n

\* the monitored row as the table holds it now: None when absent
Current(ident) ==
    IF RowsOf(ident) = {} THEN None
    ELSE LET last == activity[Max(RowsOf(ident))]
         IN  IF last.verb = "delete" THEN None ELSE Some(RowData(last))

\* another open transaction wrote ident: its row lock blocks this writer
Locked(s, ident) ==
    \E i \in RowsOf(ident) :
        /\ activity[i].transaction_id \notin committed
        /\ activity[i].transaction_id # sess[s].txid

\* txid_current() of session s, handing out an id when it has none yet
TxidCurrent(s) == IF sess[s].txid = 0 THEN nextTxid ELSE sess[s].txid

NewRow(s, ident, verb, old_data, changed_data) ==
    [id |-> Len(activity) + 1,
     table_name |-> ident[1],
     issued_at |-> clock,
     transaction_id |-> TxidCurrent(s),
     verb |-> verb,
     old_data |-> old_data,
     changed_data |-> changed_data,
     actor_id |-> None]

\* the rows the audit trigger can write for one change of ident by session s
CaptureRows(s, ident) ==
    LET cur == Current(ident)
    IN  IF cur = None
        THEN {NewRow(s, ident, "insert", None,
                     Some([k \in {"id", "x"} |-> IF k = "id" THEN ident[2] ELSE v])) :
                 v \in InsertVals}
        ELSE {NewRow(s, ident, "update", cur, Some([k \in {"x"} |-> v])) :
                 v \in Vals \ {The(cur)["x"]}}
             \cup {NewRow(s, ident, "delete", cur, None)}

(* ------------------------- set-up and sessions ------------------------- *)

\* VersioningManager.init -> attach_listeners
init ==
    /\ op = NoOp
    /\ base = None
    /\ base' = Some("Base")
    /\ activity_cls' = Some([tablename |-> "activity", actor_id |-> None])
    /\ registered' = registered \o Listeners
    /\ UNCHANGED <<cached_statements, selects, pending_classes, actor_cls, role>>
    /\ UNCHANGED <<activity, committed, clock, nextTxid, sess, values, dialect, warned, op>>

\* the application sets manager.values
SetValues(v) ==
    /\ op = NoOp
    /\ v # values
    /\ values' = v
    /\ UNCHANGED <<setup, activity, committed, clock, nextTxid, sess, dialect, base, registered, warned, op>>

\* the clock moves on once some row carries the present instant
Tick ==
    /\ op = NoOp
    /\ clock < MaxClock
    /\ \E i \in 1..Len(activity) : activity[i].issued_at = clock
    /\ clock' = clock + 1
    /\ UNCHANGED <<setup, activity, committed, nextTxid, sess, values, dialect, base, registered, warned, op>>

\* BEGIN: now() is fixed; the transaction id is handed out at the first write
Begin(s) ==
    /\ op = NoOp
    /\ sess[s].pc = "idle"
    /\ sess' = [sess EXCEPT ![s] = [pc |-> "open", txid |-> 0, start |-> clock, pending |-> 0]]
    /\ UNCHANGED <<setup, activity, committed, clock, nextTxid, values, dialect, base, registered,
                   warned, op>>

\* the after_flush listeners a flush of any Session calls
AfterFlushListeners == {i \in 1..Len(registered) : registered[i].identifier = "after_flush"}

\* a flush writes one change; the trigger logs it (PostgreSQL only)
FlushWrite(s, idents, maxlog) ==
    /\ op = NoOp
    /\ sess[s].pc = "open"
    /\ base # None
    /\ IF dialect = "postgresql"
       THEN /\ Len(activity) < maxlog
            /\ \E ident \in idents :
                 /\ ~Locked(s, ident)
                 /\ \E row \in CaptureRows(s, ident) : activity' = Append(activity, row)
       ELSE UNCHANGED activity
    /\ sess' = [sess EXCEPT ![s].txid = IF dialect = "postgresql" THEN TxidCurrent(s) ELSE 0,
                            ![s].pending = Cardinality(AfterFlushListeners),
                            ![s].pc = IF AfterFlushListeners = {} THEN "open" ELSE "flushing"]
    /\ nextTxid' = IF dialect = "postgresql" /\ sess[s].txid = 0 THEN nextTxid + 1 ELSE nextTxid
    /\ UNCHANGED <<setup, committed, clock, values, dialect, base, registered, warned, op>>

(* ----------------------- transaction attribution ----------------------- *)

convert_callables(vals) == [k \in DOMAIN vals |-> vals[k].v]

\* slips of the WHERE clause: no transaction filter, or every earlier transaction too
AttributionWhereNoTxid(row, txid_current, now) ==
    row.issued_at > now - Day

AttributionWhereUpTo(row, txid_current, now) ==
    /\ row.transaction_id <= txid_current
    /\ row.issued_at > now - Day

\* transaction_id == txid_current() AND issued_at > now() - 1 day
AttributionWhere(row, txid_current, now) ==
    /\ row.transaction_id = txid_current
    /\ row.issued_at > now - Day

\* table.update().values(**vals).where(...), run in session s
UpdateActivity(s, vals) ==
    [i \in 1..Len(activity) |->
        IF i \in Visible(s) /\ AttributionWhere(activity[i], sess[s].txid, sess[s].start)
        THEN [activity[i] EXCEPT !.actor_id = Some(vals["actor_id"])]
        ELSE activity[i]]

\* a slip of set_activity_values: the value map is looked at before the dialect
ReceiveAfterFlushValuesFirst(s) ==
    /\ op = NoOp
    /\ sess[s].pc = "flushing"
    /\ sess[s].pending > 0
    /\ LET vals == convert_callables(values)
       IN  IF DOMAIN vals = {}
           THEN UNCHANGED <<activity, warned>>
           ELSE IF dialect # "postgresql"
                THEN warned' = TRUE /\ UNCHANGED activity
                ELSE activity' = UpdateActivity(s, vals) /\ UNCHANGED warned
    /\ sess' = [sess EXCEPT ![s].pending = @ - 1,
                            ![s].pc = IF sess[s].pending = 1 THEN "open" ELSE "flushing"]
    /\ UNCHANGED <<setup, committed, clock, nextTxid, values, dialect, base, registered, op>>

\* receive_after_flush -> set_activity_values
ReceiveAfterFlush(s) ==
    /\ op = NoOp
    /\ sess[s].pc = "flushing"
    /\ sess[s].pending > 0
    /\ IF dialect # "postgresql"
       THEN warned' = TRUE /\ UNCHANGED activity
       ELSE /\ UNCHANGED warned
            /\ LET vals == convert_callables(values)
               IN  IF DOMAIN vals # {}
                   THEN activity' = UpdateActivity(s, vals)
                   ELSE UNCHANGED activity
    /\ sess' = [sess EXCEPT ![s].pending = @ - 1,
                            ![s].pc = IF sess[s].pending = 1 THEN "open" ELSE "flushing"]
    /\ UNCHANGED <<setup, committed, clock, nextTxid, values, dialect, base, registered, op>>

Commit(s) ==
    /\ op = NoOp
    /\ sess[s].pc = "open"
    /\ committed' = committed \cup ({sess[s].txid} \ {0})
    /\ sess' = [sess EXCEPT ![s] = [pc |-> "idle", txid |-> 0, start |-> 0, pending |-> 0]]
    /\ role' = [role EXCEPT ![s].local = None]
    /\ UNCHANGED <<cached_statements, selects, pending_classes, actor_cls, activity_cls>>
    /\ UNCHANGED <<activity, clock, nextTxid, values, dialect, base, registered, warned, op>>

(* --------------------------- temporal queries -------------------------- *)

\* the predicates handed to resurrect: a column, a comparison, a literal
Exprs ==
    {[f |-> "id", cmp |-> "=", lit |-> 1],
     [f |-> "x", cmp |-> "=", lit |-> 2],
     [f |-> "x", cmp |-> ">=", lit |-> 1]}

\* a comparison of two ints
Compare(cmp, a, b) ==
    CASE cmp = "="  -> a = b
      [] cmp = "!=" -> a # b
      [] cmp = "<"  -> a < b
      [] cmp = "<=" -> a <= b
      [] cmp = ">"  -> a > b
      [] cmp = ">=" -> a >= b

\* the same comparison of two texts
TextCompare(cmp, a, b) ==
    CASE cmp = "="  -> a = b
      [] cmp = "!=" -> a # b
      [] cmp = "<"  -> TextLess(a, b)
      [] cmp = "<=" -> a = b \/ TextLess(a, b)
      [] cmp = ">"  -> TextLess(b, a)
      [] cmp = ">=" -> a = b \/ TextLess(b, a)

\* the predicate over the entity's typed columns
Matches(expr, attrs) ==
    expr.f \in DOMAIN attrs /\ Compare(expr.cmp, attrs[expr.f], expr.lit)

\* ExpressionReflector: the column becomes data[column] as text
Reflected(expr, row) ==
    /\ expr.f \in DOMAIN RowData(row)
    /\ TextCompare(expr.cmp, Str(RowData(row)[expr.f]), Str(expr.lit))

\* a slip of build_condition_for_obj: the table is not compared
ConditionNoTable(obj, row) ==
    \A c \in PrimaryKeys(obj.tablename) :
        c \in DOMAIN RowData(row) /\ Str(RowData(row)[c]) = Str(obj.attrs[c])

\* table_name == obj.__tablename__ AND data[pk].astext == str(obj.pk), per key
build_condition_for_obj(obj, row) ==
    /\ row.table_name = obj.tablename
    /\ \A c \in PrimaryKeys(obj.tablename) :
          c \in DOMAIN RowData(row) /\ Str(RowData(row)[c]) = Str(obj.attrs[c])

\* a slip of get_last_transaction_id_query: issued_at <= time
LastTransactionUpTo(seen, obj, time) ==
    LET q == {i \in seen :
                 /\ build_condition_for_obj(obj, activity[i])
                 /\ (time # None => activity[i].issued_at <= The(time))}
    IN  IF q = {} THEN None ELSE Some(Max({activity[i].transaction_id : i \in q}))

\* SELECT max(transaction_id) WHERE condition [AND issued_at < time]
get_last_transaction_id_query(seen, obj, time) ==
    LET q == {i \in seen :
                 /\ build_condition_for_obj(obj, activity[i])
                 /\ (time # None => activity[i].issued_at < The(time))}
    IN  IF q = {} THEN None ELSE Some(Max({activity[i].transaction_id : i \in q}))

\* the rows of revert's query
RevertRows(seen, obj, time) ==
    LET anchor == get_last_transaction_id_query(seen, obj, time)
    IN  {i \in seen :
            /\ anchor # None
            /\ activity[i].transaction_id = The(anchor)
            /\ build_condition_for_obj(obj, activity[i])}

\* the attributes of the in-memory entity: its columns, one of them ("y") added
\* to the model class after the history was recorded
ObjAttrs(pk, x) == [k \in {"id", "x", "y"} |-> IF k = "id" THEN pk ELSE x]

\* a slip of revert: the entity's attributes are replaced by the snapshot
SetAttrsReplace(attrs, d) == d

\* for key, value in data.items(): setattr(obj, key, value)
SetAttrs(attrs, d) == DictUpdate(attrs, d)

\* revert(obj, time), run in obj's session s; scalar() is the first row returned,
\* in no stated order, or None when the query returns no row
Revert(s, ident, x, time) ==
    /\ op = NoOp
    /\ base # None
    /\ dialect = "postgresql"
    /\ sess[s].pc # "flushing"
    /\ LET obj == [tablename |-> ident[1], attrs |-> ObjAttrs(ident[2], x)]
           seen == Visible(s)
           rows == RevertRows(seen, obj, time)
           res == [kind |-> "revert", seen |-> seen, obj |-> obj, time |-> time,
                   anchor |-> get_last_transaction_id_query(seen, obj, time)]
       IN  IF rows = {}
           THEN op' = [res EXCEPT !.kind = "revert"] @@
                      [row |-> 0, after |-> obj.attrs, error |-> "AttributeError"]
           ELSE \E i \in rows :
                  op' = res @@ [row |-> i, after |-> SetAttrs(obj.attrs, RowData(activity[i])),
                                error |-> "none"]
    /\ UNCHANGED <<setup, activity, committed, clock, nextTxid, sess, values, dialect, base,
                   registered, warned>>

\* the outer join of resurrect: a row of the same table and primary key issued later
HasLaterRow(seen, model, i) ==
    \E j \in seen :
        /\ activity[i].table_name = activity[j].table_name
        /\ \A c \in PrimaryKeys(model) :
              /\ c \in DOMAIN RowData(activity[i])
              /\ c \in DOMAIN RowData(activity[j])
              /\ RowData(activity[i])[c] = RowData(activity[j])[c]
        /\ activity[i].issued_at < activity[j].issued_at

\* the rows resurrect's query returns
ResurrectRows(seen, model, expr) ==
    {i \in seen :
        /\ ~HasLaterRow(seen, model, i)
        /\ Reflected(expr, activity[i])
        /\ activity[i].verb = "delete"}

\* resurrect(session, model, expr): session.add(model(**row[0])) per row
Resurrect(s, model, expr) ==
    /\ op = NoOp
    /\ base # None
    /\ dialect = "postgresql"
    /\ sess[s].pc # "flushing"
    /\ LET seen == Visible(s)
       IN  op' = [kind |-> "resurrect", seen |-> seen, model |-> model, expr |-> expr,
                  staged |-> {[row |-> i, cls |-> model, attrs |-> RowData(activity[i])] :
                                 i \in ResurrectRows(seen, model, expr)}]
    /\ UNCHANGED <<setup, activity, committed, clock, nextTxid, sess, values, dialect, base,
                   registered, warned>>

\* the caller takes the outcome of its query
Return ==
    /\ op # NoOp
    /\ op' = NoOp
    /\ UNCHANGED <<setup, activity, committed, clock, nextTxid, sess, values, dialect, base,
                   registered, warned>>

\* the instants a caller asks revert about
Times == {Some(t) : t \in 0..(MaxClock + 1)}

Next ==
    \/ init
    \/ \E v \in ValueMaps : SetValues(v)
    \/ Tick
    \/ \E s \in Sessions : Begin(s)
    \/ \E s \in Sessions : FlushWrite(s, Identities, MaxLog)
    \/ \E s \in Sessions : ReceiveAfterFlush(s)
    \/ \E s \in Sessions : Commit(s)
    \/ \E s \in Sessions, ident \in QueryIdentities, x \in ObjVals, time \in Times :
          Revert(s, ident, x, time)
    \/ \E s \in Sessions, model \in QueryModels, expr \in Exprs : Resurrect(s, model, expr)
    \/ Return

Spec == Init /\ [][Next]_vars

\* one session, no transaction values: the history of the monitored rows
NextHistory ==
    \/ init
    \/ Tick
    \/ \E s \in HistSessions : Begin(s)
    \/ \E s \in HistSessions : FlushWrite(s, HistIdentities, MaxHist)
    \/ \E s \in HistSessions : ReceiveAfterFlush(s)
    \/ \E s \in HistSessions : Commit(s)
    \/ \E s \in HistSessions, ident \in QueryIdentities, x \in ObjVals, time \in Times :
          Revert(s, ident, x, time)
    \/ \E s \in HistSessions, model \in QueryModels, expr \in Exprs : Resurrect(s, model, expr)
    \/ Return

SpecHistory == Init /\ [][NextHistory]_vars

\* rows the activity table can hold when two sessions interleave their writes
MaxInterleaved == 3

\* two sessions whose transactions overlap, no transaction values, no queries
NextInterleaved ==
    \/ init
    \/ \E s \in Sessions : Begin(s)
    \/ \E s \in Sessions : FlushWrite(s, HistIdentities, MaxInterleaved)
    \/ \E s \in Sessions : ReceiveAfterFlush(s)
    \/ \E s \in Sessions : Commit(s)

SpecInterleaved == Init /\ [][NextInterleaved]_vars

(* ------------------- ActivityBase.data on its own ---------------------- *)

\* diffs folded at once
MaxDiffs == 3

\* the JSON objects over two keys, and None
DiffMaps == UNION {[K -> Vals] : K \in SUBSET {"id", "x"}}
OptDiffs == {None} \cup {Some(m) : m \in DiffMaps}

\* merge folded left to right over a sequence of diffs, seeded by the first
RECURSIVE Fold(_)
Fold(seq) ==
    IF Len(seq) = 1 THEN data(seq[1], None)
    ELSE data(Some(Fold(SubSeq(seq, 1, Len(seq) - 1))), seq[Len(seq)])

\* the consecutive groups of seq cut after the positions in cuts
Chunks(seq, cuts) ==
    LET ends == cuts \cup {Len(seq)}
        start(e) == IF \E c \in cuts : c < e THEN Max({c \in cuts : c < e}) + 1 ELSE 1
        order == CHOOSE f \in [1..Cardinality(ends) -> ends] :
                    \A i, j \in 1..Cardinality(ends) : i < j => f[i] < f[j]
    IN  [n \in 1..Cardinality(ends) |-> SubSeq(seq, start(order[n]), order[n])]

\* each group folded, then the groups' results folded in order
ChunkedFold(seq, cuts) ==
    LET chunks == Chunks(seq, cuts)
    IN  Fold([n \in 1..Len(chunks) |-> Some(Fold(chunks[n]))])

InitMerge ==
    /\ InitSetup
    /\ activity = <<>>
    /\ committed = {}
    /\ clock = 0
    /\ nextTxid = 1
    /\ sess = [s \in Sessions |-> [pc |-> "idle", txid |-> 0, start |-> 0, pending |-> 0]]
    /\ values = EmptyMap
    /\ dialect = "postgresql"
    /\ base = None
    /\ registered = <<>>
    /\ warned = FALSE
    /\ op \in {[kind |-> "diffs", seq |-> q] :
                  q \in UNION {[1..n -> OptDiffs] : n \in 1..MaxDiffs}}

\* record.data of a record with old_data = seq[1] and changed_data = seq[2]
ApplyData ==
    /\ op.kind = "diffs"
    /\ Len(op.seq) = 2
    /\ op' = [kind |-> "data", old_data |-> op.seq[1], changed_data |-> op.seq[2],
              out |-> data(op.seq[1], op.seq[2])]
    /\ UNCHANGED <<setup, activity, committed, clock, nextTxid, sess, values, dialect, base,
                   registered, warned>>

\* the fold of the diffs, and the fold under every chunking
ApplyFold ==
    /\ op.kind = "diffs"
    /\ op' = [kind |-> "folded", seq |-> op.seq, fold |-> Fold(op.seq),
              chunked |-> {ChunkedFold(op.seq, cuts) : cuts \in SUBSET (1..(Len(op.seq) - 1))}]
    /\ UNCHANGED <<setup, activity, committed, clock, nextTxid, sess, values, dialect, base,
                   registered, warned>>

NextMerge == ApplyData \/ ApplyFold

SpecMerge == InitMerge /\ [][NextMerge]_vars

(* ------------------ the reflected predicate on its own ----------------- *)

\* column values on both sides of a digit boundary
ReflectVals == {2, 9, 10}
ReflectExprs ==
    {[f |-> "x", cmp |-> c, lit |-> v] : c \in {"=", "!=", "<", "<=", ">", ">="}, v \in ReflectVals}

\* the log row whose data holds the entity's field values
SnapshotRow(attrs) ==
    [id |-> attrs["id"], table_name |-> "article", issued_at |-> 0, transaction_id |-> 1,
     verb |-> "delete", old_data |-> Some(attrs), changed_data |-> None, actor_id |-> None]

InitReflect ==
    /\ InitSetup
    /\ activity = <<>>
    /\ committed = {}
    /\ clock = 0
    /\ nextTxid = 1
    /\ sess = [s \in Sessions |-> [pc |-> "idle", txid |-> 0, start |-> 0, pending |-> 0]]
    /\ values = EmptyMap
    /\ dialect = "postgresql"
    /\ base = None
    /\ registered = <<>>
    /\ warned = FALSE
    /\ op \in {[kind |-> "entities", expr |-> e,
                ents |-> {[k \in {"id", "x"} |-> IF k = "id" THEN pk ELSE xs[pk]] : pk \in 1..2}] :
                  e \in ReflectExprs, xs \in [1..2 -> ReflectVals]}

\* the live entities the predicate selects, and the log rows its reflection selects
ApplyFilter ==
    /\ op.kind = "entities"
    /\ op' = [kind |-> "filtered", expr |-> op.expr, ents |-> op.ents,
              live |-> {e["id"] : e \in {a \in op.ents : Matches(op.expr, a)}},
              log |-> {e["id"] : e \in {a \in op.ents : Reflected(op.expr, SnapshotRow(a))}}]
    /\ UNCHANGED <<setup, activity, committed, clock, nextTxid, sess, values, dialect, base,
                   registered, warned>>

NextReflect == ApplyFilter

SpecReflect == InitReflect /\ [][NextReflect]_vars

(* ----------------------------- registration ---------------------------- *)

\* Select objects constructed while tables are registered
MaxSelects == 3

\* table.c of every monitored table
Columns(table) == {"id", "x"}

\* the exclude lists handed to audit_table
Excludes == {None, Some(<<>>), Some(<<"x">>), Some(<<"x", "nope">>)}

\* the declared classes that carry __versioned__
VersionedClasses ==
    {[tablename |-> "article", exclude |-> Some(<<"x">>)],
     [tablename |-> "user", exclude |-> Some(<<"x", "nope">>)],
     [tablename |-> "tag", exclude |-> None]}

\* base._decl_class_registry
Registry == {"User"}

\* the actor_cls argument of VersioningManager(): absent, a class, or a name
ActorArgs ==
    {None,
     Some([name |-> "User", string |-> FALSE]),
     Some([name |-> "User", string |-> TRUE]),
     Some([name |-> "Ghost", string |-> TRUE])}

\* a slip of the column check: only the first excluded column is looked up
UnknownColumnFirstOnly(table, exclude_columns) ==
    /\ exclude_columns # None
    /\ The(exclude_columns) # <<>>
    /\ The(exclude_columns)[1] \notin Columns(table)

\* if exclude_columns: some column of it is not in table.c
UnknownColumn(table, exclude_columns) ==
    /\ exclude_columns # None
    /\ The(exclude_columns) # <<>>
    /\ \E i \in 1..Len(The(exclude_columns)) : The(exclude_columns)[i] \notin Columns(table)

\* args: the table name, and array(exclude_columns) when the list is not empty
AuditArgs(table, exclude_columns) ==
    IF exclude_columns # None /\ The(exclude_columns) # <<>>
    THEN <<table, The(exclude_columns)>>
    ELSE <<table>>

\* sa.select([func(*args)]): a new Select, which hashes and compares by identity
NewSelect(n, args) == [oid |-> n, args |-> args]

\* the registration state audit_table works on
Registration ==
    [cached |-> cached_statements, selects |-> selects, registered |-> registered,
     error |-> "none"]

\* audit_table(table, exclude_columns)
audit_table(reg, table, exclude_columns) ==
    IF UnknownColumn(table, exclude_columns)
    THEN [reg EXCEPT !.error = "ImproperlyConfigured"]
    ELSE LET query == NewSelect(reg.selects + 1, AuditArgs(table, exclude_columns))
             cached == IF \E e \in reg.cached : e.stmt = query
                       THEN reg.cached
                       ELSE reg.cached \cup {[stmt |-> query]}
             executor == CHOOSE e \in cached : e.stmt = query
             listener == [identifier |-> "after_create", target |-> table, fn |-> executor]
             contains == \E i \in 1..Len(reg.registered) :
                            /\ reg.registered[i].identifier = "after_create"
                            /\ reg.registered[i] = listener
         IN  [cached |-> cached, selects |-> reg.selects + 1,
              registered |-> IF contains THEN reg.registered
                             ELSE Append(reg.registered, listener),
              error |-> "none"]

\* for cls in pending_classes: audit_table(...), up to the first error
RECURSIVE AuditAll(_, _)
AuditAll(reg, order) ==
    IF order = <<>> \/ reg.error # "none" THEN reg
    ELSE AuditAll(audit_table(reg, Head(order).tablename, Head(order).exclude), Tail(order))

\* the orders a set can be iterated in
Orders(S) ==
    {q \in [1..Cardinality(S) -> S] : \A i, j \in 1..Cardinality(S) : i # j => q[i] # q[j]}

\* the property actor_cls; self.base is an attribute only init assigns
ActorCls ==
    IF actor_cls # None /\ The(actor_cls).string
    THEN IF base = None
         THEN [error |-> "AttributeError", value |-> None]
         ELSE IF The(actor_cls).name \in Registry
              THEN [error |-> "none", value |-> Some([name |-> The(actor_cls).name, string |-> FALSE])]
              ELSE [error |-> "ImproperlyConfigured", value |-> None]
    ELSE [error |-> "none", value |-> actor_cls]

\* assign_actor(base, cls, actor_cls)
assign_actor(cls, actor) ==
    IF cls.actor_id # None THEN cls
    ELSE IF actor # None THEN [cls EXCEPT !.actor_id = Some("actor primary key")]
    ELSE [cls EXCEPT !.actor_id = Some("text")]

\* the mapper event instrument_class, for a class that carries __versioned__
InstrumentVersionedClasses(cls) ==
    /\ op = NoOp
    /\ \E i \in 1..Len(registered) : registered[i].identifier = "instrument_class"
    /\ cls \notin pending_classes
    /\ pending_classes' = pending_classes \cup {cls}
    /\ UNCHANGED <<cached_statements, selects, actor_cls, activity_cls, role>>
    /\ UNCHANGED <<activity, committed, clock, nextTxid, sess, values, dialect, base,
                   registered, warned, op>>

\* the mapper event after_configured: configure_versioned_classes()
ConfigureVersionedClasses(order) ==
    /\ op = NoOp
    /\ \E i \in 1..Len(registered) : registered[i].identifier = "after_configured"
    /\ selects + Len(order) <= MaxSelects
    /\ LET reg == AuditAll(Registration, order)
           actor == ActorCls
           error == IF reg.error # "none" THEN reg.error ELSE actor.error
       IN  /\ cached_statements' = reg.cached
           /\ selects' = reg.selects
           /\ registered' = reg.registered
           /\ activity_cls' = IF error = "none"
                              THEN Some(assign_actor(The(activity_cls), actor.value))
                              ELSE activity_cls
           /\ op' = [kind |-> "configure", order |-> order, error |-> error]
    /\ UNCHANGED <<pending_classes, actor_cls, role>>
    /\ UNCHANGED <<activity, committed, clock, nextTxid, sess, values, dialect, base, warned>>

\* audit_table(table, exclude_columns), called by the application
AuditTable(table, exclude_columns) ==
    /\ op = NoOp
    /\ selects < MaxSelects
    /\ LET reg == audit_table(Registration, table, exclude_columns)
       IN  /\ cached_statements' = reg.cached
           /\ selects' = reg.selects
           /\ registered' = reg.registered
           /\ op' = [kind |-> "audit_table", table |-> table, exclude |-> exclude_columns,
                     error |-> reg.error]
    /\ UNCHANGED <<pending_classes, actor_cls, activity_cls, role>>
    /\ UNCHANGED <<activity, committed, clock, nextTxid, sess, values, dialect, base, warned>>

\* manager.actor_cls is read
ReadActorCls ==
    /\ op = NoOp
    /\ op' = [kind |-> "actor_cls", given |-> actor_cls, initialised |-> base # None,
              error |-> ActorCls.error, value |-> ActorCls.value]
    /\ UNCHANGED <<setup, activity, committed, clock, nextTxid, sess, values, dialect, base,
                   registered, warned>>

\* the table is created: every after_create listener on it runs its statement
AfterCreate(table) ==
    /\ op = NoOp
    /\ op' = [kind |-> "after_create", table |-> table,
              executed |-> SelectSeq(registered,
                                     LAMBDA l : l.identifier = "after_create" /\ l.target = table)]
    /\ UNCHANGED <<setup, activity, committed, clock, nextTxid, sess, values, dialect, base,
                   registered, warned>>

\* a manager constructed with any actor_cls argument
InitRegistration ==
    /\ cached_statements = {}
    /\ selects = 0
    /\ pending_classes = {}
    /\ actor_cls \in ActorArgs
    /\ activity_cls = None
    /\ role = [s \in Sessions |-> FreshRole]
    /\ activity = <<>>
    /\ committed = {}
    /\ clock = 0
    /\ nextTxid = 1
    /\ sess = [s \in Sessions |-> [pc |-> "idle", txid |-> 0, start |-> 0, pending |-> 0]]
    /\ values = EmptyMap
    /\ dialect = "postgresql"
    /\ base = None
    /\ registered = <<>>
    /\ warned = FALSE
    /\ op = NoOp

NextRegistration ==
    \/ init
    \/ \E cls \in VersionedClasses : InstrumentVersionedClasses(cls)
    \/ \E order \in Orders(pending_classes) : ConfigureVersionedClasses(order)
    \/ \E table \in {"article", "user"}, exclude \in Excludes : AuditTable(table, exclude)
    \/ ReadActorCls
    \/ \E table \in {"article", "user"} : AfterCreate(table)
    \/ Return

SpecRegistration == InitRegistration /\ [][NextRegistration]_vars

(* ------------------------- capture suspension -------------------------- *)

\* the values of session_replication_role the application sets for a session
Roles == {"origin", "replica"}

\* current_setting('session_replication_role'): the transaction-local value, if any
CurrentSetting(r) == IF r.local # None THEN The(r.local) ELSE r.session

\* SET session_replication_role = r, issued by the application between transactions
SetRole(s, r) ==
    /\ op = NoOp
    /\ sess[s].pc = "idle"
    /\ role[s].scope = "out"
    /\ role[s].session # r
    /\ role' = [role EXCEPT ![s].session = r]
    /\ UNCHANGED <<cached_statements, selects, pending_classes, actor_cls, activity_cls>>
    /\ UNCHANGED <<activity, committed, clock, nextTxid, sess, values, dialect, base,
                   registered, warned, op>>

\* a statement run through the session opens a transaction when none is open
Autobegin(s) ==
    IF sess[s].pc = "idle"
    THEN [sess EXCEPT ![s] = [pc |-> "open", txid |-> 0, start |-> clock, pending |-> 0]]
    ELSE sess

\* with manager.disable(session): the setting is read, then SET LOCAL ... "local"
DisableEnter(s) ==
    /\ op = NoOp
    /\ sess[s].pc # "flushing"
    /\ role[s].scope = "out"
    /\ role' = [role EXCEPT ![s].saved = Some(CurrentSetting(role[s])),
                            ![s].local = Some("local"),
                            ![s].scope = "body"]
    /\ sess' = Autobegin(s)
    /\ UNCHANGED <<cached_statements, selects, pending_classes, actor_cls, activity_cls>>
    /\ UNCHANGED <<activity, committed, clock, nextTxid, values, dialect, base,
                   registered, warned, op>>

\* the body returns: the generator resumes after yield and SET LOCAL restores
DisableExit(s) ==
    /\ op = NoOp
    /\ sess[s].pc # "flushing"
    /\ role[s].scope = "body"
    /\ role' = [role EXCEPT ![s].local = role[s].saved,
                            ![s].saved = None,
                            ![s].scope = "out"]
    /\ sess' = Autobegin(s)
    /\ UNCHANGED <<cached_statements, selects, pending_classes, actor_cls, activity_cls>>
    /\ UNCHANGED <<activity, committed, clock, nextTxid, values, dialect, base,
                   registered, warned, op>>

\* the body raises: the exception is thrown into the generator at yield, and
\* with no try/finally nothing after yield runs
DisableRaise(s) ==
    /\ op = NoOp
    /\ sess[s].pc # "flushing"
    /\ role[s].scope = "body"
    /\ role' = [role EXCEPT ![s].saved = None, ![s].scope = "out"]
    /\ UNCHANGED <<cached_statements, selects, pending_classes, actor_cls, activity_cls>>
    /\ UNCHANGED <<activity, committed, clock, nextTxid, sess, values, dialect, base,
                   registered, warned, op>>

NextDisable ==
    \/ \E s \in Sessions : Begin(s)
    \/ \E s \in Sessions : Commit(s)
    \/ \E s \in Sessions, r \in Roles : SetRole(s, r)
    \/ \E s \in Sessions : DisableEnter(s)
    \/ \E s \in Sessions : DisableExit(s)
    \/ \E s \in Sessions : DisableRaise(s)

SpecDisable == Init /\ [][NextDisable]_vars

(* ------------------ the identity condition on its own ------------------ *)

\* rows inserted before the condition is built
MaxInserts == 3

\* the entities of the keyed table and of the table without a primary key
Entities ==
    {[tablename |-> "article", attrs |-> [k \in {"id", "x"} |-> IF k = "id" THEN pk ELSE 1]] :
        pk \in 1..2}
    \cup {[tablename |-> t, attrs |-> [k \in {"x"} |-> v]] : t \in KeylessTables, v \in Vals}

\* the log after each entity of ents was inserted in a transaction of its own
InsertLog(ents) ==
    [n \in 1..Len(ents) |->
        [id |-> n, table_name |-> ents[n].tablename, issued_at |-> 0, transaction_id |-> n,
         verb |-> "insert", old_data |-> None, changed_data |-> Some(ents[n].attrs),
         actor_id |-> None]]

InitCondition ==
    /\ InitSetup
    /\ \E ents \in UNION {[1..n -> Entities] : n \in 1..MaxInserts} :
          /\ activity = InsertLog(ents)
          /\ committed = 1..Len(ents)
          /\ nextTxid = Len(ents) + 1
    /\ clock = 0
    /\ sess = [s \in Sessions |-> [pc |-> "idle", txid |-> 0, start |-> 0, pending |-> 0]]
    /\ values = EmptyMap
    /\ dialect = "postgresql"
    /\ base = None
    /\ registered = <<>>
    /\ warned = FALSE
    /\ op = NoOp

\* build_condition_for_obj(obj), and the rows of the log its condition selects
BuildCondition(s, obj) ==
    /\ op = NoOp
    /\ base # None
    /\ op' = [kind |-> "condition", obj |-> obj, keys |-> PrimaryKeys(obj.tablename),
              seen |-> Visible(s), error |-> "none",
              rows |-> {i \in Visible(s) : build_condition_for_obj(obj, activity[i])}]
    /\ UNCHANGED <<setup, activity, committed, clock, nextTxid, sess, values, dialect, base,
                   registered, warned>>

NextCondition ==
    \/ init
    \/ \E s \in HistSessions, obj \in Entities : BuildCondition(s, obj)
    \/ Return

SpecCondition == InitCondition /\ [][NextCondition]_vars

(* ------------------------------ claims --------------------------------- *)

OrEmpty(o) == IF o = None THEN EmptyMap ELSE The(o)

\* C8: data = merge(old, changed) holds every key of old and of changed, with
\* changed's value for each key of changed and old's value for every other key;
\* merging with an empty or absent side returns the other side.
C8_MergeOverwrite ==
    op.kind = "data" =>
        LET old == OrEmpty(op.old_data)
            changed == OrEmpty(op.changed_data)
        IN  /\ DOMAIN op.out = DOMAIN old \cup DOMAIN changed
            /\ \A k \in DOMAIN changed : op.out[k] = changed[k]
            /\ \A k \in DOMAIN old \ DOMAIN changed : op.out[k] = old[k]
            /\ (DOMAIN changed = {} => op.out = old)
            /\ (DOMAIN old = {} => op.out = changed)

\* an update record: a full old row, and a diff that overwrites one of its keys
C8_Witness ==
    /\ op.kind = "data"
    /\ op.old_data # None /\ op.changed_data # None
    /\ DOMAIN The(op.old_data) = {"id", "x"}
    /\ DOMAIN The(op.changed_data) = {"x"}
    /\ The(op.old_data)["x"] # The(op.changed_data)["x"]
    /\ op.out["x"] = The(op.changed_data)["x"]
    /\ op.out["id"] = The(op.old_data)["id"]

\* C9: folding merge over a chronological sequence of diffs gives the same
\* result under every chunking into consecutive groups.
C9_FoldChunking ==
    op.kind = "folded" => op.chunked = {op.fold}

\* three diffs, the last one setting a key the middle one lacks
C9_Witness ==
    /\ op.kind = "folded"
    /\ Len(op.seq) = 3
    /\ \A n \in 1..3 : op.seq[n] # None
    /\ "x" \in DOMAIN The(op.seq[1])
    /\ "x" \notin DOMAIN The(op.seq[2])
    /\ "x" \in DOMAIN The(op.seq[3])
    /\ The(op.seq[1])["x"] # The(op.seq[3])["x"]
    /\ op.fold["x"] = The(op.seq[3])["x"]

\* C10: the reflected predicate selects from the log rows exactly the identities
\* the typed predicate selects from live entities with the same field values.
C10_ReflectionEquivalence ==
    op.kind = "filtered" => op.live = op.log

(* --- claims about attribution --- *)

\* session s runs its after_flush listener in this step
HookStep(s) ==
    /\ sess[s].pc = "flushing"
    /\ sess'[s].pending < sess[s].pending

\* session s flushes a change to the log in this step
FlushStep(s) ==
    /\ sess[s].pc = "open"
    /\ Len(activity') = Len(activity) + 1
    /\ activity'[Len(activity')].transaction_id = sess'[s].txid

\* session s commits in this step
CommitStep(s) ==
    /\ sess[s].pc = "open"
    /\ sess'[s].pc = "idle"

\* C1: an attribution update changes only rows whose transaction_id is the
\* updating transaction's own id, whatever the rows' issued_at.
C1_AttributionIsolation ==
    [][\A i \in 1..Len(activity) :
          (i <= Len(activity') /\ activity'[i] # activity[i]) =>
              \E s \in Sessions : HookStep(s) /\ activity[i].transaction_id = sess[s].txid]_vars

\* two open transactions wrote rows at the same instant; each carries the value
\* its own transaction attributed
C1_Witness ==
    \E i, j \in 1..Len(activity) :
        /\ activity[i].transaction_id # activity[j].transaction_id
        /\ activity[i].transaction_id \notin committed
        /\ activity[j].transaction_id \notin committed
        /\ activity[i].issued_at = activity[j].issued_at
        /\ activity[i].actor_id = Some(1)
        /\ activity[j].actor_id = Some(2)

\* C6: every flush is followed by exactly one run of the attribution hook before
\* the session goes on; with a non-empty value map that run leaves every row of
\* the flushing transaction attributed; attribution is never removed; and a
\* transaction commits with no hook outstanding.
C6_AttributedBeforeCommit ==
    [][/\ \A s \in Sessions :
             FlushStep(s) => sess'[s].pc = "flushing" /\ sess'[s].pending = 1
       /\ \A s \in Sessions :
             (HookStep(s) /\ DOMAIN values # {}) =>
                 /\ sess'[s].pc = "open"
                 /\ \A i \in 1..Len(activity') :
                       activity'[i].transaction_id = sess[s].txid =>
                           activity'[i].actor_id = Some(convert_callables(values)["actor_id"])
       /\ \A i \in 1..Len(activity) :
             activity[i].actor_id # None =>
                 i <= Len(activity') /\ activity'[i].actor_id # None
       /\ \A s \in Sessions :
             CommitStep(s) =>
                 /\ sess[s].pending = 0
                 /\ committed' = committed \cup ({sess[s].txid} \ {0})]_vars

\* a committed transaction of two flushes, both rows attributed
C6_Witness ==
    \E i, j \in 1..Len(activity) :
        /\ i < j
        /\ activity[i].transaction_id = activity[j].transaction_id
        /\ activity[i].transaction_id \in committed
        /\ activity[i].actor_id # None
        /\ activity[j].actor_id # None

\* C7 as stated: once a row is attributed it is never changed again.
C7_AttributedOnce ==
    [][\A i \in 1..Len(activity) :
          activity[i].actor_id # None =>
              i <= Len(activity') /\ activity'[i] = activity[i]]_vars

\* C7, amended: no row is ever deleted; a row changes only in its actor_id, only
\* by the after_flush hook of the transaction that wrote it, and so only while
\* that transaction is open; every flush of the transaction rewrites it.
C7_OnlyOwnAttribution ==
    [][/\ Len(activity') >= Len(activity)
       /\ \A i \in 1..Len(activity) :
             \/ activity'[i] = activity[i]
             \/ /\ activity'[i] = [activity[i] EXCEPT !.actor_id = activity'[i].actor_id]
                /\ activity[i].transaction_id \notin committed
                /\ \E s \in Sessions :
                      HookStep(s) /\ activity[i].transaction_id = sess[s].txid]_vars

\* a transaction flushed twice under different value maps: its first row
\* carries the second flush's value, and a query has read the log
C7_Witness ==
    /\ op.kind \in {"revert", "resurrect"}
    /\ \E i, j \in 1..Len(activity) :
          /\ i < j
          /\ activity[i].transaction_id = activity[j].transaction_id
          /\ activity[i].actor_id = Some(2)
          /\ activity[j].actor_id = Some(2)
          /\ {i, j} \subseteq op.seen

\* C13: attribution degrades instead of failing. On a backend that is not
\* PostgreSQL the hook warns, updates nothing and returns, so the flush goes on;
\* on PostgreSQL with an empty value map it updates nothing and warns nothing.
C13_AttributionDegrades ==
    [][\A s \in Sessions :
          HookStep(s) =>
              /\ dialect # "postgresql" =>
                    /\ warned'
                    /\ activity' = activity
                    /\ sess'[s].pending = sess[s].pending - 1
                    /\ sess'[s].pc = "open"
              /\ (dialect = "postgresql" /\ DOMAIN values = {}) =>
                    /\ activity' = activity
                    /\ warned' = warned
                    /\ sess'[s].pc = "open"]_vars

\* a backend that is not PostgreSQL: a flush under a non-empty value map has
\* warned, no row was written, and the session went on to commit
C13_Witness ==
    /\ dialect # "postgresql"
    /\ warned
    /\ DOMAIN values # {}
    /\ activity = <<>>
    /\ \A s \in Sessions : sess[s].pc = "idle"

(* --- claims about the temporal queries --- *)

\* the rows of op.seen about the entity revert was called on
SeenRowsOfObj ==
    {i \in op.seen :
        /\ activity[i].table_name = op.obj.tablename
        /\ RowData(activity[i])["id"] = op.obj.attrs["id"]}

\* those issued strictly before the time revert was called with
SeenBefore == {i \in SeenRowsOfObj : activity[i].issued_at < The(op.time)}

\* the entity's rows come one per transaction, in transaction order, the updates
\* at strictly increasing instants after an insert
SequentialUpdates ==
    /\ \A i, j \in SeenRowsOfObj :
          i < j => /\ activity[i].transaction_id < activity[j].transaction_id
                   /\ activity[i].issued_at <= activity[j].issued_at
                   /\ activity[j].verb = "update"
                   /\ (activity[i].verb = "update" => activity[i].issued_at < activity[j].issued_at)
    /\ \A i \in SeenRowsOfObj : i = Min(SeenRowsOfObj) => activity[i].verb = "insert"

\* C2: revert assigns to the entity every field of the data of the entity's
\* record in the latest transaction that has a record issued before asOf (one
\* record per transaction); after an insert and sequential updates it sets x to
\* the value of the last update issued before asOf.
C2_RevertRoundTrip ==
    (op.kind = "revert" /\ SeenBefore # {}) =>
        LET T == Max({activity[i].transaction_id : i \in SeenBefore})
            recs == {i \in SeenRowsOfObj : activity[i].transaction_id = T}
        IN  /\ op.error = "none"
            /\ Cardinality(recs) = 1 =>
                  LET rec == activity[The(recs)]
                  IN  /\ \A k \in DOMAIN RowData(rec) : op.after[k] = RowData(rec)[k]
                      /\ (SequentialUpdates /\ rec.verb = "update") =>
                            /\ The(recs) = Max(SeenBefore)
                            /\ op.after["x"] = The(rec.changed_data)["x"]

\* insert, then updates to v1, v2, v3 in four transactions; asOf is the instant
\* of the third update and x is set to v2
C2_Witness ==
    /\ op.kind = "revert"
    /\ op.error = "none"
    /\ Cardinality(SeenRowsOfObj) = 4
    /\ SequentialUpdates
    /\ Cardinality(SeenBefore) = 3
    /\ activity[Max(SeenRowsOfObj)].issued_at = The(op.time)
    /\ op.after["x"] = The(activity[Max(SeenBefore)].changed_data)["x"]
    /\ op.after["x"] # The(activity[Max(SeenRowsOfObj)].changed_data)["x"]
    /\ op.after["x"] # op.obj.attrs["x"]

\* C3: with no record of the entity issued strictly before asOf, revert fails
\* with NoHistoryError and leaves the entity's fields unchanged.
C3_NoHistoryError ==
    (op.kind = "revert" /\ SeenBefore = {}) =>
        /\ op.error = "NoHistoryError"
        /\ op.after = op.obj.attrs

\* C5: the maximum transaction id is taken over the records of the same table and
\* primary key issued strictly before t, and is none when there is no such record.
C5_LastTransactionBefore ==
    op.kind = "revert" =>
        IF SeenBefore = {} THEN op.anchor = None
        ELSE /\ op.anchor # None
             /\ \E i \in SeenBefore : activity[i].transaction_id = The(op.anchor)
             /\ \A i \in SeenBefore : activity[i].transaction_id <= The(op.anchor)

\* the entity has a record before t, and a record of another table with a later
\* transaction id is in view
C5_Witness ==
    /\ op.kind = "revert"
    /\ op.anchor # None
    /\ \E i \in op.seen :
          /\ activity[i].table_name # op.obj.tablename
          /\ activity[i].issued_at < The(op.time)
          /\ activity[i].transaction_id > The(op.anchor)

\* C14: revert changes only the attributes of the entity passed to it, and of
\* those only the keys of the snapshot it read: every other attribute keeps its
\* value, and the activity table and the transactions are as before.
C14_RevertFrame ==
    [][(op = NoOp /\ op'.kind = "revert") =>
          LET snapshot == IF op'.error = "none" THEN RowData(activity[op'.row]) ELSE EmptyMap
          IN  /\ activity' = activity
              /\ committed' = committed
              /\ sess' = sess
              /\ DOMAIN op'.after = DOMAIN op'.obj.attrs \cup DOMAIN snapshot
              /\ \A k \in DOMAIN op'.obj.attrs \ DOMAIN snapshot :
                    op'.after[k] = op'.obj.attrs[k]
              /\ \A k \in DOMAIN snapshot : op'.after[k] = snapshot[k]]_vars

\* revert changed x of an entity that has an attribute the snapshot lacks, and
\* that attribute kept its value
C14_Witness ==
    /\ op.kind = "revert"
    /\ op.error = "none"
    /\ "y" \notin DOMAIN RowData(activity[op.row])
    /\ op.after["y"] = op.obj.attrs["y"]
    /\ op.after["x"] # op.obj.attrs["x"]
    /\ Len(activity) >= 2

\* the entity's records written by the anchor transaction
AnchorRows == {i \in SeenRowsOfObj : activity[i].transaction_id = The(op.anchor)}

\* i comes before j in (issued_at, id) order
IssuedBefore(i, j) ==
    \/ activity[i].issued_at < activity[j].issued_at
    \/ activity[i].issued_at = activity[j].issued_at /\ activity[i].id < activity[j].id

\* C18: when the anchor transaction wrote several records of the entity, revert
\* applies the data of the last of them in (issued_at, id) order, the entity's
\* state at the end of that transaction, whichever run it is.
C18_AnchorSnapshotIsLast ==
    (op.kind = "revert" /\ op.error = "none" /\ Cardinality(AnchorRows) > 1) =>
        /\ \A j \in AnchorRows \ {op.row} : IssuedBefore(j, op.row)
        /\ \A k \in DOMAIN RowData(activity[Max(AnchorRows)]) :
              op.after[k] = RowData(activity[Max(AnchorRows)])[k]

\* i comes before j in (transaction_id, issued_at, id) order
TransactionBefore(i, j) ==
    \/ activity[i].transaction_id < activity[j].transaction_id
    \/ activity[i].transaction_id = activity[j].transaction_id /\ IssuedBefore(i, j)

\* the changed_data of the rows S, in (transaction_id, issued_at, id) order
DiffsByTransaction(S) ==
    LET order == CHOOSE q \in [1..Cardinality(S) -> S] :
                    \A m, n \in 1..Cardinality(S) : m < n => TransactionBefore(q[m], q[n])
    IN  [n \in 1..Cardinality(S) |-> activity[order[n]].changed_data]

\* the changed_data of the rows S, in the order they were written
DiffsByLog(S) ==
    LET order == CHOOSE q \in [1..Cardinality(S) -> S] :
                    \A m, n \in 1..Cardinality(S) : m < n => q[m] < q[n]
    IN  [n \in 1..Cardinality(S) |-> activity[order[n]].changed_data]

\* C15 as stated: the data of the record that ends transaction T of an identity
\* equals merge folded over the changed_data of the identity's records with
\* transaction_id <= T, in transaction order, from the first one on.
C15_SnapshotIsFoldByTransaction ==
    \A ident \in HistIdentities :
        \A i \in RowsOf(ident) :
            (\A j \in RowsOf(ident) \ {i} :
                 activity[j].transaction_id = activity[i].transaction_id => IssuedBefore(j, i)) =>
                data(activity[i].old_data, activity[i].changed_data)
                    = Fold(DiffsByTransaction(
                          {j \in RowsOf(ident) :
                              activity[j].transaction_id <= activity[i].transaction_id}))

\* C15, amended: the data of every record of an identity equals merge folded
\* over the changed_data of the identity's records written up to and including
\* it, in the order the log received them.
C15_SnapshotIsFoldOfLog ==
    \A ident \in HistIdentities :
        \A i \in RowsOf(ident) :
            data(activity[i].old_data, activity[i].changed_data)
                = Fold(DiffsByLog({j \in RowsOf(ident) : j <= i}))

\* a transaction with the smaller id updated a row that a transaction with the
\* greater id had inserted and committed
C15_Witness ==
    \E ident \in HistIdentities :
        \E i, j \in RowsOf(ident) :
            /\ i < j
            /\ activity[i].verb = "insert"
            /\ activity[j].verb = "update"
            /\ activity[j].transaction_id < activity[i].transaction_id
            /\ data(activity[j].old_data, activity[j].changed_data)["x"]
                  # data(activity[i].old_data, activity[i].changed_data)["x"]

\* the rows of op.seen about one monitored row
SeenRowsOf(ident) == {i \in op.seen : RowIdentity(activity[i]) = ident}

\* C4: resurrect stages exactly one entity, built from the delete record's data,
\* for each identity that matches the predicate and whose last log event is a
\* delete, and nothing for any other identity.
C4_ResurrectCompleteness ==
    op.kind = "resurrect" =>
        \A ident \in Identities :
            LET rows == SeenRowsOf(ident)
                staged == {st \in op.staged : RowIdentity(activity[st.row]) = ident}
            IN  IF /\ rows # {}
                   /\ activity[Max(rows)].verb = "delete"
                   /\ Matches(op.expr, RowData(activity[Max(rows)]))
                THEN staged = {[row |-> Max(rows), cls |-> op.model,
                                attrs |-> RowData(activity[Max(rows)])]}
                ELSE staged = {}

(* --- claims about configuration --- *)

\* C11: building the identity condition for an entity type without a primary key
\* fails with ConfigurationError, and never yields a condition that selects
\* records by table name alone.
C11_NoPrimaryKeyIsAnError ==
    (op.kind = "condition" /\ op.keys = {}) =>
        /\ op.error = "ConfigurationError"
        /\ op.rows = {}

\* C17: when a disable(session) scope ends, by return or by an exception of its
\* body, session_replication_role of the session is what it was when the scope
\* was entered.
C17_RoleRestored ==
    [][\A s \in Sessions :
          (role[s].scope = "body" /\ role'[s].scope = "out") =>
              CurrentSetting(role'[s]) = The(role[s].saved)]_vars

\* some excluded column is not a column of the table
NamesUnknownColumn(table, exclude) ==
    exclude # None /\ \E i \in 1..Len(The(exclude)) : The(exclude)[i] \notin Columns(table)

\* the cached statements and the after_create listeners of one table
StatementsOf(cached, table) == {e \in cached : e.stmt.args[1] = table}
TableListeners(reg, table) ==
    SelectSeq(reg, LAMBDA l : l.identifier = "after_create" /\ l.target = table)

\* C12: registering a table with an exclude list that names a column the table
\* lacks raises ImproperlyConfigured, by audit_table and by
\* configure_versioned_classes alike, and neither caches a statement nor
\* attaches an after_create listener for that table.
C12_UnknownExcludeRejected ==
    [][/\ (op = NoOp /\ op'.kind = "audit_table"
              /\ NamesUnknownColumn(op'.table, op'.exclude)) =>
             /\ op'.error = "ImproperlyConfigured"
             /\ cached_statements' = cached_statements
             /\ registered' = registered
       /\ (op = NoOp /\ op'.kind = "configure") =>
             \A n \in 1..Len(op'.order) :
                 NamesUnknownColumn(op'.order[n].tablename, op'.order[n].exclude) =>
                     /\ op'.error = "ImproperlyConfigured"
                     /\ StatementsOf(cached_statements', op'.order[n].tablename)
                            = StatementsOf(cached_statements, op'.order[n].tablename)
                     /\ TableListeners(registered', op'.order[n].tablename)
                            = TableListeners(registered, op'.order[n].tablename)]_vars

\* configuration reached a class whose exclude list names an unknown column after
\* it had registered another class: the call failed, the first table has its
\* listener and the rejected one has none
C12_Witness ==
    /\ op.kind = "configure"
    /\ op.error = "ImproperlyConfigured"
    /\ Len(op.order) >= 2
    /\ NamesUnknownColumn(op.order[2].tablename, op.order[2].exclude)
    /\ TableListeners(registered, op.order[1].tablename) # <<>>
    /\ TableListeners(registered, op.order[2].tablename) = <<>>
    /\ StatementsOf(cached_statements, op.order[2].tablename) = {}

\* C16: with the actor type given as a name, reading actor_cls raises
\* ImproperlyConfigured when the manager has no declarative base yet and when the
\* name is not in the class registry; no other error escapes, and what is
\* returned is the resolved class, never the name.
C16_ActorNameFailsFast ==
    (op.kind = "actor_cls" /\ op.given # None /\ The(op.given).string) =>
        /\ op.error \in {"none", "ImproperlyConfigured"}
        /\ (~op.initialised \/ The(op.given).name \notin Registry) =>
               op.error = "ImproperlyConfigured"
        /\ op.error = "none" => (op.value # None /\ ~The(op.value).string)

\* the after_create listeners of one table that run the same audit_table call
SameCallListeners(table, args) ==
    {i \in 1..Len(registered) :
        /\ registered[i].identifier = "after_create"
        /\ registered[i].target = table
        /\ registered[i].fn.stmt.args = args}

\* C19: whatever sequence of audit_table and configure_versioned_classes calls
\* has run, a table has at most one after_create listener per exclude list, so a
\* table creation invokes the audit_table database function once.
C19_OneListenerPerTable ==
    /\ \A i \in 1..Len(registered) :
          registered[i].identifier = "after_create" =>
              Cardinality(SameCallListeners(registered[i].target, registered[i].fn.stmt.args)) <= 1
    /\ op.kind = "after_create" =>
          \A i, j \in 1..Len(op.executed) :
              i # j => op.executed[i].fn.stmt.args # op.executed[j].fn.stmt.args

====
